---- MODULE Spec2Model ----
(***************************************************************************)
(* Model of deno-lib-test/example.ts: the Directory Reporter.              *)
(*                                                                         *)
(*   for await (const entry of walk(Deno.env.get("HOME") + "/Desktop")) {  *)
(*     if (entry.isFile) console.log(`File: ${entry.path}`);               *)
(*     else if (entry.isDirectory) console.log(`Directory: ${entry.path}`);*)
(*   }                                                                     *)
(*                                                                         *)
(* Strings are sequences of one-character strings, so concatenation and    *)
(* formatting are computed, not assumed.  A run of the script is a process *)
(* p; every per-process variable is a function over the process ids.  The  *)
(* file system and the walker (an imported library) are the environment:   *)
(* the set of existing directories, the entry sequence the walker yields   *)
(* for an existing root, and the point at which it fails, if any.          *)
(***************************************************************************)
EXTENDS Integers, Sequences, FiniteSets, TLC

\* ------------------------------------------------------------------ bounds
\* Longest entry sequence the walker yields in a single-run specification.
MaxEntries == 2
\* Longest entry sequence the walker yields in the two-run specification.
MaxEntriesTwice == 1

\* ----------------------------------------------------------------- strings
\* The literal suffix of line 3.
DesktopSuffix == <<"/", "D", "e", "s", "k", "t", "o", "p">>
\* The two template-literal prefixes of lines 5 and 7.
FileLabel == <<"F", "i", "l", "e", ":", " ">>
DirectoryLabel == <<"D", "i", "r", "e", "c", "t", "o", "r", "y", ":", " ">>
\* The line terminator console.log appends.
Newline == <<"\n">>

\* console.log(s): one write of s followed by a newline.
ConsoleLog(out, s) == Append(out, s \o Newline)

\* A JavaScript value that is either a string or undefined.
Undefined == [defined |-> FALSE, str |-> <<>>]
StringVal(s) == [defined |-> TRUE, str |-> s]

\* Variant: undefined rendered as the empty string.
JsToString_Empty(v) == IF v.defined THEN v.str ELSE <<>>

\* ToString as applied by the + operator and by template literals.
JsToString(v) == IF v.defined THEN v.str ELSE <<"u", "n", "d", "e", "f", "i", "n", "e", "d">>

\* a + b where b is a string: string concatenation of JsToString(a) and b.
Plus(a, b) == JsToString(a) \o b

\* Deno.env.get(key): the value if the variable is set, undefined otherwise.
EnvGet(environ, key) == IF key \in DOMAIN environ THEN StringVal(environ[key]) ELSE Undefined

\* ------------------------------------------------------------- environment
\* The values HOME has when it is set; an environment may also leave it unset.
HomeValues == {<<>>, <<"h">>}
Environs == {<<>>} \cup {[k \in {"HOME"} |-> h] : h \in HomeValues}

\* The root paths the script can pass to the walker.
RootCandidates == {Plus(EnvGet(e, "HOME"), DesktopSuffix) : e \in Environs}

\* Walk entries: a path and the two classification flags the script reads.
Paths == {<<"a">>, <<"b">>}
Entries == [path : Paths, isFile : BOOLEAN, isDirectory : BOOLEAN]

RECURSIVE SeqsUpTo(_, _)
SeqsUpTo(S, n) == IF n = 0 THEN {<<>>}
                  ELSE LET shorter == SeqsUpTo(S, n - 1)
                       IN shorter \cup {Append(s, x) : s \in {t \in shorter : Len(t) = n - 1}, x \in S}

\* failAt = -1: the walker never fails; failAt = k: it fails after k entries.
NoFailure == 0 - 1

VARIABLES
    environ,      \* per process: its environment (a function from names to strings)
    dirs,         \* the directories that exist
    tree,         \* the entries the walker yields for an existing root, in walk order
    failAt,       \* the walker's failure point
    pc,           \* per process: Start, ResolvingRoot, Walking, Done, Aborted
    homeVal,      \* per process: the value Deno.env.get returned
    walkCalls,    \* per process: the argument lists of the calls of walk so far
    envReads,     \* per process: the names read from the environment so far
    pos,          \* per process: entries the walker's iterator has yielded
    pending,      \* per process: a next() request is outstanding
    entry,        \* per process: the loop variable, as a sequence of 0 or 1 entries
    yielded,      \* per process: the entries yielded so far
    processedLog, \* per process: the indices of the entries whose loop body has run
    requested,    \* per process: number of next() requests made
    failed,       \* per process: the walker raised a failure
    stdout,       \* per process: the writes to standard output, in order
    exitCode      \* per process: -1 while running, then the exit status

vars == <<environ, dirs, tree, failAt, pc, homeVal, walkCalls, envReads, pos, pending,
          entry, yielded, processedLog, requested, failed, stdout, exitCode>>

envVars == <<environ, dirs, tree, failAt>>

Procs == DOMAIN pc

\* ------------------------------------------------------------------- Init
InitProcs(P, n) ==
    /\ environ \in [P -> Environs]
    /\ dirs \in SUBSET RootCandidates
    /\ tree \in SeqsUpTo(Entries, n)
    /\ failAt \in {NoFailure} \cup (0..Len(tree))
    /\ pc = [p \in P |-> "Start"]
    /\ homeVal = [p \in P |-> Undefined]
    /\ walkCalls = [p \in P |-> <<>>]
    /\ envReads = [p \in P |-> <<>>]
    /\ pos = [p \in P |-> 0]
    /\ pending = [p \in P |-> FALSE]
    /\ entry = [p \in P |-> <<>>]
    /\ yielded = [p \in P |-> <<>>]
    /\ processedLog = [p \in P |-> <<>>]
    /\ requested = [p \in P |-> 0]
    /\ failed = [p \in P |-> FALSE]
    /\ stdout = [p \in P |-> <<>>]
    /\ exitCode = [p \in P |-> 0 - 1]

Init == InitProcs({1}, MaxEntries)

\* ---------------------------------------------------------------- actions
\* Variant: the variable is looked up a second time (say, to test that it is set).
ReadEnv_Twice(p) ==
    /\ pc[p] = "Start"
    /\ homeVal' = [homeVal EXCEPT ![p] = EnvGet(environ[p], "HOME")]
    /\ envReads' = [envReads EXCEPT ![p] = Append(Append(@, "HOME"), "HOME")]
    /\ pc' = [pc EXCEPT ![p] = "ResolvingRoot"]
    /\ UNCHANGED <<envVars, walkCalls, pos, pending, entry, yielded, processedLog,
                   requested, failed, stdout, exitCode>>

\* Line 3, Deno.env.get("HOME"): the one read of the environment.
ReadEnv(p) ==
    /\ pc[p] = "Start"
    /\ homeVal' = [homeVal EXCEPT ![p] = EnvGet(environ[p], "HOME")]
    /\ envReads' = [envReads EXCEPT ![p] = Append(@, "HOME")]
    /\ pc' = [pc EXCEPT ![p] = "ResolvingRoot"]
    /\ UNCHANGED <<envVars, walkCalls, pos, pending, entry, yielded, processedLog,
                   requested, failed, stdout, exitCode>>

\* Variant: the root path is announced on standard output before the walk.
CallWalk_Header(p) ==
    /\ pc[p] = "ResolvingRoot"
    /\ walkCalls' = [walkCalls EXCEPT ![p] = Append(@, <<Plus(homeVal[p], DesktopSuffix)>>)]
    /\ pos' = [pos EXCEPT ![p] = 0]
    /\ pc' = [pc EXCEPT ![p] = "Walking"]
    /\ stdout' = [stdout EXCEPT ![p] = ConsoleLog(@, Plus(homeVal[p], DesktopSuffix))]
    /\ UNCHANGED <<envVars, homeVal, envReads, pending, entry, yielded, processedLog,
                   requested, failed, exitCode>>

\* Line 3, walk(... + "/Desktop"): the root path is built and the walker is
\* called with it as its only argument.  The call returns a lazy iterator;
\* nothing is read from the file system yet.
CallWalk(p) ==
    /\ pc[p] = "ResolvingRoot"
    /\ walkCalls' = [walkCalls EXCEPT ![p] = Append(@, <<Plus(homeVal[p], DesktopSuffix)>>)]
    /\ pos' = [pos EXCEPT ![p] = 0]
    /\ pc' = [pc EXCEPT ![p] = "Walking"]
    /\ UNCHANGED <<envVars, homeVal, envReads, pending, entry, yielded, processedLog,
                   requested, failed, stdout, exitCode>>

\* The root path the iterator of process p walks.
Root(p) == walkCalls[p][Len(walkCalls[p])][1]

\* Variant: the next entry is requested while the current one is still in hand.
RequestNext_Eager(p) ==
    /\ pc[p] = "Walking"
    /\ ~pending[p]
    /\ pending' = [pending EXCEPT ![p] = TRUE]
    /\ requested' = [requested EXCEPT ![p] = @ + 1]
    /\ UNCHANGED <<envVars, pc, homeVal, walkCalls, envReads, pos, entry, yielded,
                   processedLog, failed, stdout, exitCode>>

\* Line 3, for await: with no entry in hand the loop asks the iterator for
\* the next one and suspends.
RequestNext(p) ==
    /\ pc[p] = "Walking"
    /\ entry[p] = <<>>
    /\ ~pending[p]
    /\ pending' = [pending EXCEPT ![p] = TRUE]
    /\ requested' = [requested EXCEPT ![p] = @ + 1]
    /\ UNCHANGED <<envVars, pc, homeVal, walkCalls, envReads, pos, entry, yielded,
                   processedLog, failed, stdout, exitCode>>

\* The walker fails on this request: the root does not exist, or the
\* traversal has arrived at its failure point.
WalkerFails(p) == Root(p) \notin dirs \/ failAt = pos[p]

\* Line 3: the request resolves with the next entry, bound to the loop variable.
NextYields(p) ==
    /\ pc[p] = "Walking"
    /\ pending[p]
    /\ ~WalkerFails(p)
    /\ pos[p] < Len(tree)
    /\ pos' = [pos EXCEPT ![p] = @ + 1]
    /\ entry' = [entry EXCEPT ![p] = <<tree[pos[p] + 1]>>]
    /\ yielded' = [yielded EXCEPT ![p] = Append(@, tree[pos[p] + 1])]
    /\ pending' = [pending EXCEPT ![p] = FALSE]
    /\ UNCHANGED <<envVars, pc, homeVal, walkCalls, envReads, processedLog, requested,
                   failed, stdout, exitCode>>

\* Lines 3 and 9: the request resolves with done; the loop ends, the module
\* ends, the process exits with status 0.
NextReturns(p) ==
    /\ pc[p] = "Walking"
    /\ pending[p]
    /\ ~WalkerFails(p)
    /\ pos[p] = Len(tree)
    /\ pending' = [pending EXCEPT ![p] = FALSE]
    /\ pc' = [pc EXCEPT ![p] = "Done"]
    /\ exitCode' = [exitCode EXCEPT ![p] = 0]
    /\ UNCHANGED <<envVars, homeVal, walkCalls, envReads, pos, entry, yielded,
                   processedLog, requested, failed, stdout>>

\* Variant: the loop is wrapped in a try/catch that logs the error and exits 1.
NextThrows_Logged(p) ==
    /\ pc[p] = "Walking"
    /\ pending[p]
    /\ WalkerFails(p)
    /\ pending' = [pending EXCEPT ![p] = FALSE]
    /\ failed' = [failed EXCEPT ![p] = TRUE]
    /\ pc' = [pc EXCEPT ![p] = "Aborted"]
    /\ exitCode' = [exitCode EXCEPT ![p] = 1]
    /\ stdout' = [stdout EXCEPT ![p] = ConsoleLog(@, <<"E", "r", "r", "o", "r">>)]
    /\ UNCHANGED <<envVars, homeVal, walkCalls, envReads, pos, entry, yielded,
                   processedLog, requested>>

\* Variant: the loop is wrapped in a try/catch that swallows the error.
NextThrows_Caught(p) ==
    /\ pc[p] = "Walking"
    /\ pending[p]
    /\ WalkerFails(p)
    /\ pending' = [pending EXCEPT ![p] = FALSE]
    /\ failed' = [failed EXCEPT ![p] = TRUE]
    /\ pc' = [pc EXCEPT ![p] = "Done"]
    /\ exitCode' = [exitCode EXCEPT ![p] = 0]
    /\ UNCHANGED <<envVars, homeVal, walkCalls, envReads, pos, entry, yielded,
                   processedLog, requested, stdout>>

\* Lines 3-9 have no try/catch: a rejected request is an uncaught error at
\* the top level of the module, and the process exits with status 1.
NextThrows(p) ==
    /\ pc[p] = "Walking"
    /\ pending[p]
    /\ WalkerFails(p)
    /\ pending' = [pending EXCEPT ![p] = FALSE]
    /\ failed' = [failed EXCEPT ![p] = TRUE]
    /\ pc' = [pc EXCEPT ![p] = "Aborted"]
    /\ exitCode' = [exitCode EXCEPT ![p] = 1]
    /\ UNCHANGED <<envVars, homeVal, walkCalls, envReads, pos, entry, yielded,
                   processedLog, requested, stdout>>

\* Variant: the directory branch is missing.
Body_SkipsDirectories(out, e) ==
    IF e.isFile THEN ConsoleLog(out, FileLabel \o e.path)
    ELSE out

\* Variant: a final else reports every other entry too.
Body_LogsOther(out, e) ==
    IF e.isFile THEN ConsoleLog(out, FileLabel \o e.path)
    ELSE IF e.isDirectory THEN ConsoleLog(out, DirectoryLabel \o e.path)
    ELSE ConsoleLog(out, e.path)

\* Variant: two independent if statements instead of if / else if.
Body_BothTests(out, e) ==
    LET afterFile == IF e.isFile THEN ConsoleLog(out, FileLabel \o e.path) ELSE out
    IN IF e.isDirectory THEN ConsoleLog(afterFile, DirectoryLabel \o e.path) ELSE afterFile

\* Lines 4-8: what the loop body writes for entry e, given the output so far.
Body(out, e) ==
    IF e.isFile THEN ConsoleLog(out, FileLabel \o e.path)
    ELSE IF e.isDirectory THEN ConsoleLog(out, DirectoryLabel \o e.path)
    ELSE out

\* Variant: the path is printed joined to the root path.
ProcessEntry_Rooted(p) ==
    /\ pc[p] = "Walking"
    /\ entry[p] # <<>>
    /\ stdout' = [stdout EXCEPT ![p] =
                     Body(@, [entry[p][1] EXCEPT !.path = Root(p) \o <<"/">> \o @])]
    /\ processedLog' = [processedLog EXCEPT ![p] = Append(@, pos[p])]
    /\ entry' = [entry EXCEPT ![p] = <<>>]
    /\ UNCHANGED <<envVars, pc, homeVal, walkCalls, envReads, pos, pending, yielded,
                   requested, failed, exitCode>>

\* Lines 4-8: the loop body runs on the entry in hand, then control returns
\* to the head of the loop.
ProcessEntry(p) ==
    /\ pc[p] = "Walking"
    /\ entry[p] # <<>>
    /\ stdout' = [stdout EXCEPT ![p] = Body(@, entry[p][1])]
    /\ processedLog' = [processedLog EXCEPT ![p] = Append(@, pos[p])]
    /\ entry' = [entry EXCEPT ![p] = <<>>]
    /\ UNCHANGED <<envVars, pc, homeVal, walkCalls, envReads, pos, pending, yielded,
                   requested, failed, exitCode>>

Next ==
    \/ \E p \in Procs : ReadEnv(p)
    \/ \E p \in Procs : CallWalk(p)
    \/ \E p \in Procs : RequestNext(p)
    \/ \E p \in Procs : NextYields(p)
    \/ \E p \in Procs : NextReturns(p)
    \/ \E p \in Procs : NextThrows(p)
    \/ \E p \in Procs : ProcessEntry(p)

Spec == Init /\ [][Next]_vars

\* The runtime runs the module to completion and the walker answers every
\* request, so a step that can be taken eventually is.
FairSpec == Init /\ [][Next]_vars /\ WF_vars(Next)

\* Two runs of the script, one after the other, against the same directory
\* tree; each process has its own environment.
InitTwice == InitProcs({1, 2}, MaxEntriesTwice)

Terminated(p) == pc[p] \in {"Done", "Aborted"}

\* The second run starts when the first has ended.
Turn(p) == p = 1 \/ Terminated(1)

NextTwice ==
    \/ \E p \in Procs : Turn(p) /\ ReadEnv(p)
    \/ \E p \in Procs : Turn(p) /\ CallWalk(p)
    \/ \E p \in Procs : Turn(p) /\ RequestNext(p)
    \/ \E p \in Procs : Turn(p) /\ NextYields(p)
    \/ \E p \in Procs : Turn(p) /\ NextReturns(p)
    \/ \E p \in Procs : Turn(p) /\ NextThrows(p)
    \/ \E p \in Procs : Turn(p) /\ ProcessEntry(p)

SpecTwice == InitTwice /\ [][NextTwice]_vars

\* ------------------------------------------------------- expected output
\* The line the specification gives for a file or directory entry.
LineOf(e) == (IF e.isFile THEN FileLabel ELSE DirectoryLabel) \o e.path \o Newline

Reported(e) == e.isFile \/ e.isDirectory

RECURSIVE MapLines(_)
MapLines(es) == IF es = <<>> THEN <<>> ELSE <<LineOf(Head(es))>> \o MapLines(Tail(es))

\* Entries in walk order, unclassified ones dropped, each mapped to its line.
ExpectedOutput(es) == MapLines(SelectSeq(es, Reported))

\* What the walker yields to process p over a whole walk.
WalkOf(p) == IF Root(p) \in dirs
             THEN (IF failAt = NoFailure THEN tree ELSE SubSeq(tree, 1, failAt))
             ELSE <<>>

\* ------------------------------------------------------------------ C1
\* C1: when a run reaches Done, the walker has yielded its whole sequence and
\* standard output is exactly the lines of the file and directory entries,
\* in walk order, with nothing before, between or after them.
C1_OutputIsClassifiedWalk ==
    \A p \in Procs :
        pc[p] = "Done" =>
            /\ yielded[p] = tree
            /\ stdout[p] = ExpectedOutput(tree)

\* A finished run that was yielded a file and then a directory of another path.
C1_Witness ==
    \E p \in Procs :
        /\ pc[p] = "Done"
        /\ Len(yielded[p]) = 2
        /\ yielded[p][1].isFile
        /\ ~yielded[p][2].isFile /\ yielded[p][2].isDirectory
        /\ yielded[p][1].path # yielded[p][2].path
        /\ Len(stdout[p]) = 2

\* ------------------------------------------------------------------ C2
Unclassified(e) == ~e.isFile /\ ~e.isDirectory

\* The loop body has just run on an unclassified entry.
JustSkipped(p) ==
    /\ pc[p] = "Walking"
    /\ entry[p] = <<>>
    /\ ~pending[p]
    /\ processedLog[p] # <<>>
    /\ Unclassified(yielded[p][Len(yielded[p])])

\* C2: the loop body on an entry that is neither a file nor a directory
\* writes nothing and raises nothing: the run is still Walking, it is not
\* Aborted, the next request can be made, and at Done every file or directory
\* entry after a skipped one has its line on standard output.
C2_SkipIsSilent ==
    /\ [][\A p \in Procs :
            (entry[p] # <<>> /\ Unclassified(entry[p][1]) /\ entry'[p] = <<>>) =>
                /\ stdout'[p] = stdout[p]
                /\ pc'[p] = "Walking"
                /\ ~failed'[p]
                /\ exitCode'[p] = exitCode[p]]_vars
    /\ [](\A p \in Procs : JustSkipped(p) => ENABLED RequestNext(p))
    /\ [](\A p \in Procs : pc[p] = "Done" =>
            \A i, j \in 1..Len(yielded[p]) :
                (i < j /\ Unclassified(yielded[p][i]) /\ Reported(yielded[p][j])) =>
                    \E k \in 1..Len(stdout[p]) : stdout[p][k] = LineOf(yielded[p][j]))

\* A finished run that skipped its first entry and reported its second.
C2_Witness ==
    \E p \in Procs :
        /\ pc[p] = "Done"
        /\ Len(yielded[p]) = 2
        /\ Unclassified(yielded[p][1])
        /\ Reported(yielded[p][2])
        /\ stdout[p] = <<LineOf(yielded[p][2])>>

\* ------------------------------------------------------------------ C3
\* C3: once the walker has raised a failure the run is Aborted, standard
\* output holds exactly the lines of the entries yielded before the failure,
\* in walk order, and nothing changes afterwards.
C3_FailureAborts ==
    /\ [](\A p \in Procs : failed[p] =>
            /\ pc[p] = "Aborted"
            /\ yielded[p] = WalkOf(p)
            /\ stdout[p] = ExpectedOutput(yielded[p]))
    /\ [][\A p \in Procs : failed[p] =>
            /\ stdout'[p] = stdout[p]
            /\ pc'[p] = pc[p]
            /\ requested'[p] = requested[p]
            /\ yielded'[p] = yielded[p]]_vars

\* A run that failed after a reported entry, with a later entry never reached.
C3_Witness ==
    \E p \in Procs :
        /\ failed[p]
        /\ Len(tree) = 2
        /\ Len(yielded[p]) = 1
        /\ Len(stdout[p]) = 1

\* ------------------------------------------------------------------ C4
\* C4: a run whose root path does not exist never yields an entry, never
\* writes to standard output, and ends Aborted, never Done.
C4_MissingRootAborts ==
    \A p \in Procs :
        (walkCalls[p] # <<>> /\ Root(p) \notin dirs) =>
            /\ stdout[p] = <<>>
            /\ yielded[p] = <<>>
            /\ pc[p] # "Done"
            /\ (Terminated(p) => pc[p] = "Aborted" /\ exitCode[p] # 0)

\* An aborted run over a missing root although the tree has entries to give.
C4_Witness ==
    \E p \in Procs :
        /\ pc[p] = "Aborted"
        /\ Root(p) \notin dirs
        /\ tree # <<>>
        /\ failAt = NoFailure

\* ------------------------------------------------------------------ C5
HomeIsSet(p) == "HOME" \in DOMAIN environ[p]

\* The lookup has raised no error: the run went on to build the root path.
LookupRaisedNothing(p) == pc[p] # "Start" => (walkCalls[p] # <<>> \/ pc[p] = "ResolvingRoot")

\* C5 as stated: with HOME unset the root path passed to the walker is
\* exactly /Desktop, and with HOME set to h it is h followed by /Desktop.
C5_UnsetHomeIsEmpty ==
    \A p \in Procs :
        /\ LookupRaisedNothing(p)
        /\ walkCalls[p] # <<>> =>
              Root(p) = (IF HomeIsSet(p) THEN environ[p]["HOME"] ELSE <<>>) \o DesktopSuffix

\* C5 amended: with HOME unset the lookup raises no error and yields
\* undefined, which the concatenation renders as the text "undefined", so the
\* root path passed to the walker is exactly undefined/Desktop; with HOME
\* set to h it is exactly h followed by /Desktop.
C5_UnsetHomeIsUndefinedText ==
    \A p \in Procs :
        /\ LookupRaisedNothing(p)
        /\ walkCalls[p] # <<>> =>
              Root(p) = (IF HomeIsSet(p) THEN environ[p]["HOME"]
                         ELSE <<"u", "n", "d", "e", "f", "i", "n", "e", "d">>) \o DesktopSuffix

\* The walker has been called by a run whose HOME is unset.
C5_Witness ==
    \E p \in Procs :
        /\ ~HomeIsSet(p)
        /\ walkCalls[p] # <<>>
        /\ Len(Root(p)) = 17

\* ------------------------------------------------------------------ C6
\* C6: every run eventually reaches a terminal state and stays there; it is
\* Done with exit status 0 exactly when the walker's sequence was exhausted
\* without a failure, and Aborted with a non-zero exit status exactly when
\* the walker raised a failure.
C6_TerminatesInOneTerminalState ==
    /\ <>[](\A p \in Procs : Terminated(p))
    /\ [](\A p \in Procs :
            /\ pc[p] = "Done" <=> (exitCode[p] = 0 /\ ~failed[p] /\ yielded[p] = tree
                                   /\ requested[p] = Len(tree) + 1)
            /\ pc[p] = "Aborted" <=> failed[p]
            /\ pc[p] = "Aborted" => exitCode[p] > 0
            /\ Terminated(p) <=> exitCode[p] >= 0)
    /\ [][\A p \in Procs : Terminated(p) => pc'[p] = pc[p] /\ exitCode'[p] = exitCode[p]]_vars

\* A run aborted with a non-zero status by a failure after two entries.
C6_Witness ==
    \E p \in Procs :
        /\ pc[p] = "Aborted"
        /\ exitCode[p] = 1
        /\ Len(yielded[p]) = 2
        /\ requested[p] = 3

C8_LockStep ==
    /\ [](\A p \in Procs :
            /\ Len(yielded[p]) - Len(processedLog[p]) = Len(entry[p])
            /\ Len(entry[p]) <= 1
            /\ requested[p] - Len(processedLog[p]) \in {0, 1}
            /\ requested[p] >= Len(yielded[p])
            /\ pending[p] => entry[p] = <<>>)
    /\ [][\A p \in Procs : requested'[p] # requested[p] =>
            /\ requested'[p] = requested[p] + 1
            /\ entry[p] = <<>>
            /\ Len(processedLog[p]) = requested[p]
            /\ stdout[p] = ExpectedOutput(yielded[p])]_vars

\* The second request is outstanding with the first entry's line written.
C8_Witness ==
    \E p \in Procs :
        /\ pending[p]
        /\ requested[p] = 2
        /\ Len(stdout[p]) = 1

\* ------------------------------------------------------------------ C9
\* C9: a run reads HOME once and calls the walker once, with the root path
\* as the only argument, before any request; the entries are processed once
\* each, front to back, and a finished run has processed all of them.
C9_SinglePass ==
    \A p \in Procs :
        /\ Len(envReads[p]) <= 1
        /\ Len(walkCalls[p]) <= 1
        /\ pc[p] \notin {"Start"} => envReads[p] = <<"HOME">>
        /\ pc[p] \notin {"Start", "ResolvingRoot"} =>
              /\ Len(walkCalls[p]) = 1
              /\ walkCalls[p][1] = <<Plus(homeVal[p], DesktopSuffix)>>
        /\ requested[p] > 0 => Len(walkCalls[p]) = 1
        /\ processedLog[p] = [i \in 1..Len(processedLog[p]) |-> i]
        /\ yielded[p] = SubSeq(tree, 1, Len(yielded[p]))
        /\ pc[p] = "Done" => Len(processedLog[p]) = Len(tree)

\* A finished run that processed two entries.
C9_Witness ==
    \E p \in Procs :
        /\ pc[p] = "Done"
        /\ processedLog[p] = <<1, 2>>
        /\ envReads[p] = <<"HOME">>

\* ------------------------------------------------------------------ C10
\* C10: the file test comes first.  The loop body adds at most one line per
\* entry; for an entry reporting isFile, isDirectory or not, that line is
\* the File line; so standard output never has more lines than entries
\* have been yielded.
C10_FileTestFirst ==
    /\ [](\A p \in Procs : Len(stdout[p]) <= Len(yielded[p]))
    /\ [][\A p \in Procs :
            /\ Len(stdout'[p]) <= Len(stdout[p]) + 1
            /\ (entry[p] # <<>> /\ entry'[p] = <<>> /\ entry[p][1].isFile) =>
                  stdout'[p] = Append(stdout[p], FileLabel \o entry[p][1].path \o Newline)]_vars

\* An entry reporting both isFile and isDirectory has been processed.
C10_Witness ==
    \E p \in Procs :
        /\ processedLog[p] # <<>>
        /\ entry[p] = <<>>
        /\ yielded[p][Len(yielded[p])].isFile
        /\ yielded[p][Len(yielded[p])].isDirectory
        /\ Len(stdout[p]) = 1

====
